---- MODULE Spec2Model ----
(***************************************************************************)
(* Employee repository (whole-snapshot JSON file) and monthly payroll of   *)
(* NUEVO_DAMIAN.py.                                                        *)
(*                                                                         *)
(* Text values are sequences of characters, so that str.strip() is         *)
(* computed.  Money is a Python float: a decimal numeral with two places   *)
(* is held as its number of cents where the program holds the numeral      *)
(* (console input, JSON text), and as an IEEE-754 binary64 value           *)
(* [m, e] = m * 2^e wherever the program computes with it.  The console    *)
(* also accepts the text nan for a salary: the float NaN.                  *)
(***************************************************************************)
EXTENDS Integers, Sequences, FiniteSets, TLC

(***************************************************************************)
(* Natural numbers of any size: little-endian sequences of limbs in base   *)
(* 2^15, without leading zero limbs (zero is <<>>).  They carry the 53-bit *)
(* significands of binary64 and the exact intermediate results.            *)
(***************************************************************************)
Base == 32768
LimbBits == 15

RECURSIVE Pow2(_)
Pow2(k) == IF k = 0 THEN 1 ELSE 2 * Pow2(k - 1)

RECURSIVE Norm(_)
Norm(a) ==
  IF a = <<>> THEN <<>>
  ELSE IF a[Len(a)] = 0 THEN Norm(SubSeq(a, 1, Len(a) - 1)) ELSE a

Limb(a, i) == IF i <= Len(a) THEN a[i] ELSE 0

RECURSIVE BFromInt(_)
BFromInt(n) == IF n = 0 THEN <<>> ELSE <<n % Base>> \o BFromInt(n \div Base)

RECURSIVE BToInt(_)
BToInt(a) == IF a = <<>> THEN 0 ELSE a[1] + Base * BToInt(Tail(a))

RECURSIVE BAddC(_, _, _, _)
BAddC(a, b, i, c) ==
  IF i > Len(a) /\ i > Len(b)
  THEN IF c = 0 THEN <<>> ELSE <<c>>
  ELSE LET s == Limb(a, i) + Limb(b, i) + c
       IN  <<s % Base>> \o BAddC(a, b, i + 1, s \div Base)

BAdd(a, b) == BAddC(a, b, 1, 0)

RECURSIVE BSubC(_, _, _, _)
BSubC(a, b, i, c) ==
  IF i > Len(a) THEN <<>>
  ELSE LET s == Limb(a, i) - Limb(b, i) - c
       IN  IF s < 0 THEN <<s + Base>> \o BSubC(a, b, i + 1, 1)
           ELSE <<s>> \o BSubC(a, b, i + 1, 0)

\* a - b for a >= b
BSub(a, b) == Norm(BSubC(a, b, 1, 0))

RECURSIVE BMulSmallC(_, _, _, _)
BMulSmallC(a, k, i, c) ==
  IF i > Len(a)
  THEN IF c = 0 THEN <<>> ELSE <<c>>
  ELSE LET s == a[i] * k + c
       IN  <<s % Base>> \o BMulSmallC(a, k, i + 1, s \div Base)

\* a * k for 0 <= k < Base
BMulSmall(a, k) == IF k = 0 THEN <<>> ELSE BMulSmallC(a, k, 1, 0)

Zeros(n) == [i \in 1..n |-> 0]

RECURSIVE BMulC(_, _, _)
BMulC(a, b, i) ==
  IF i > Len(b) THEN <<>>
  ELSE BAdd(Norm(Zeros(i - 1) \o BMulSmall(a, b[i])), BMulC(a, b, i + 1))

BMul(a, b) == IF a = <<>> \/ b = <<>> THEN <<>> ELSE Norm(BMulC(a, b, 1))

RECURSIVE BDivSmallC(_, _, _, _)
BDivSmallC(a, k, i, r) ==
  IF i = 0 THEN [q |-> <<>>, r |-> r]
  ELSE LET cur  == r * Base + a[i]
           rest == BDivSmallC(a, k, i - 1, cur % k)
       IN  [q |-> rest.q \o <<cur \div k>>, r |-> rest.r]

\* quotient and remainder of a by k, 0 < k < Base
BDivSmall(a, k) ==
  LET d == BDivSmallC(a, k, Len(a), 0) IN [q |-> Norm(d.q), r |-> d.r]

RECURSIVE BCmpC(_, _, _)
BCmpC(a, b, i) ==
  IF i = 0 THEN 0
  ELSE IF a[i] < b[i] THEN -1
  ELSE IF a[i] > b[i] THEN 1
  ELSE BCmpC(a, b, i - 1)

\* -1, 0, 1 as a < b, a = b, a > b
BCmp(a, b) ==
  IF Len(a) < Len(b) THEN -1
  ELSE IF Len(a) > Len(b) THEN 1
  ELSE BCmpC(a, b, Len(a))

BShl(a, k) ==
  IF a = <<>> THEN <<>>
  ELSE Zeros(k \div LimbBits) \o BMulSmall(a, Pow2(k % LimbBits))

BShr(a, k) ==
  LET n == k \div LimbBits
  IN  IF n >= Len(a) THEN <<>>
      ELSE BDivSmall(SubSeq(a, n + 1, Len(a)), Pow2(k % LimbBits)).q

RECURSIVE IntBits(_)
IntBits(n) == IF n = 0 THEN 0 ELSE 1 + IntBits(n \div 2)

BBitLen(a) ==
  IF a = <<>> THEN 0 ELSE LimbBits * (Len(a) - 1) + IntBits(a[Len(a)])

BOdd(a) == a # <<>> /\ a[1] % 2 = 1

\* q or q + 1, as the remainder compares to one half (c) and q is odd
Redondeo(q, c) ==
  IF c > 0 \/ (c = 0 /\ BOdd(q)) THEN BAdd(q, <<1>>) ELSE q

BShrRoundQ(a, k, q) ==
  Redondeo(q, BCmp(BSub(a, BShl(q, k)), BShl(<<1>>, k - 1)))

\* a / 2^k rounded to the nearest integer, ties to even
BShrRound(a, k) == IF k = 0 THEN a ELSE BShrRoundQ(a, k, BShr(a, k))

(***************************************************************************)
(* binary64 values that are not negative and finite, or NaN: [m, e] stands *)
(* for m * 2^e with 2^52 <= m < 2^53, and zero is [<<>>, 0].  Every        *)
(* operation rounds the exact result to nearest, ties to even, and yields  *)
(* NaN when an operand is NaN.                                             *)
(***************************************************************************)
Mant == 53

FZero == [m |-> <<>>, e |-> 0, nan |-> FALSE]

FNaN == [m |-> <<>>, e |-> 0, nan |-> TRUE]

\* q * 2^e for a rounded significand q, which may have reached 2^53
FRoundQ(q, e) ==
  IF BBitLen(q) > Mant THEN [m |-> BShr(q, 1), e |-> e + 1, nan |-> FALSE]
  ELSE [m |-> q, e |-> e, nan |-> FALSE]

FRoundL(n, e, l) ==
  IF l = 0 THEN FZero
  ELSE IF l <= Mant
       THEN [m |-> BShl(n, Mant - l), e |-> e - (Mant - l), nan |-> FALSE]
  ELSE FRoundQ(BShrRound(n, l - Mant), e + (l - Mant))

\* the binary64 value nearest to n * 2^e
FRound(n, e) == FRoundL(n, e, BBitLen(n))

FFromInt(n) == FRound(BFromInt(n), 0)

Min(x, y) == IF x < y THEN x ELSE y

FAdd(a, b) ==
  IF a.nan \/ b.nan THEN FNaN
  ELSE IF a.m = <<>> THEN b
  ELSE IF b.m = <<>> THEN a
  ELSE LET e == Min(a.e, b.e)
       IN  FRound(BAdd(BShl(a.m, a.e - e), BShl(b.m, b.e - e)), e)

\* -1, 0, 1 as a < b, a = b, a > b, and 2 when a or b is NaN: then every
\* comparison of the two is false
FCmp(a, b) ==
  IF a.nan \/ b.nan THEN 2
  ELSE IF a.m = <<>> /\ b.m = <<>> THEN 0
  ELSE IF a.m = <<>> THEN -1
  ELSE IF b.m = <<>> THEN 1
  ELSE LET e == Min(a.e, b.e)
       IN  BCmp(BShl(a.m, a.e - e), BShl(b.m, b.e - e))

\* a - b for a >= b
FSub(a, b) ==
  IF a.nan \/ b.nan THEN FNaN
  ELSE IF b.m = <<>> THEN a
  ELSE LET e == Min(a.e, b.e)
       IN  FRound(BSub(BShl(a.m, a.e - e), BShl(b.m, b.e - e)), e)

FMul(a, b) ==
  IF a.nan \/ b.nan THEN FNaN ELSE FRound(BMul(a.m, b.m), a.e + b.e)

Guard == 60

\* the quotient d of n * 2^Guard by k, with a last bit set when inexact
FDivSticky(d, e) ==
  FRound(BAdd(BShl(d.q, 1), IF d.r = 0 THEN <<>> ELSE <<1>>), e - Guard - 1)

\* the binary64 value nearest to n * 2^e / k, 0 < k < Base
FDivRound(n, e, k) == FDivSticky(BDivSmall(BShl(n, Guard), k), e)

FDivInt(a, k) == IF a.nan THEN FNaN ELSE FDivRound(a.m, a.e, k)

\* float("<c / 100>"), json.load of the numeral: the value nearest to c / 100
FFromCents(c) == FDivRound(BFromInt(c), 0, 100)

\* round(a, 2): the exact value is rounded to hundredths, ties to even, and
\* the numeral is read back as a binary64 value; round(nan, 2) is nan.
\* FCents yields the hundredths.
FCents(a) ==
  LET n == BMulSmall(a.m, 100)
  IN  IF a.e >= 0 THEN BToInt(BShl(n, a.e)) ELSE BToInt(BShrRound(n, -a.e))

FRound2(a) == IF a.nan THEN FNaN ELSE FFromCents(FCents(a))

(***************************************************************************)
(* Text                                                                    *)
(***************************************************************************)
Whitespace == {" ", "\t"}

RECURSIVE lstrip(_)
lstrip(s) == IF s # <<>> /\ Head(s) \in Whitespace THEN lstrip(Tail(s)) ELSE s

RECURSIVE rstrip(_)
rstrip(s) ==
  IF s # <<>> /\ s[Len(s)] \in Whitespace
  THEN rstrip(SubSeq(s, 1, Len(s) - 1)) ELSE s

\* str.strip()
strip(s) == rstrip(lstrip(s))

(***************************************************************************)
(* Outcomes of a call: a returned value or a raised ValueError             *)
(***************************************************************************)
Return(v) == [tipo |-> "return", valor |-> v]
ValueError(msg) == [tipo |-> "ValueError", msg |-> msg]

MsgTextoVacio == "Los campos de texto no pueden estar vacios"
MsgNegativo == "Los valores numericos no pueden ser negativos"
MsgYaExiste == "Ya existe un empleado con cedula"
MsgNoHayEmpleados == "No hay empleados registrados"

\* float(input(...)) of a salary: the text is a numeral of c hundredths, or
\* it is "nan"
Dec(c) == [nan |-> FALSE, c |-> c]
NaN == [nan |-> TRUE, c |-> 0]

\* x < 0 for a salary x: false when x is nan
Negativo(x) == ~x.nan /\ x.c < 0

\* positional arguments carry their Python type
Str(s) == [t |-> "str", v |-> s]
Num(n) == [t |-> "num", v |-> n]

\* the wrapper's loop over args[1:]: the first failing check raises
RECURSIVE validar_entrada(_)
validar_entrada(args) ==
  IF args = <<>> THEN Return(TRUE)
  ELSE LET arg == Head(args)
       IN  IF arg.t = "str" /\ strip(arg.v) = <<>> THEN ValueError(MsgTextoVacio)
           ELSE IF arg.t = "num" /\ Negativo(arg.v) THEN ValueError(MsgNegativo)
           ELSE validar_entrada(Tail(args))

\* Empleado(cedula, nombre, sueldo, departamento, cargo), positional
Empleado(cedula, nombre, sueldo, departamento, cargo) ==
  LET v == validar_entrada(<<Str(cedula), Str(nombre), Num(sueldo),
                             Str(departamento), Str(cargo)>>)
  IN  IF v.tipo = "ValueError" THEN v
      ELSE Return([cedula |-> cedula, nombre |-> nombre, sueldo |-> sueldo,
                   departamento |-> departamento, cargo |-> cargo])

(***************************************************************************)
(* RepositorioEmpleados over the snapshot file empleados.json.  A file is  *)
(* [existe, datos]; an operation yields its outcome, the file afterwards   *)
(* and the calls it made.                                                  *)
(***************************************************************************)
CamposEmpleado == {"cedula", "nombre", "sueldo", "departamento", "cargo"}

_serializar(empleado) == [k \in CamposEmpleado |-> empleado[k]]

\* Empleado(**data): keyword arguments, which the wrapper does not inspect
_deserializar(data) ==
  [cedula |-> data["cedula"], nombre |-> data["nombre"],
   sueldo |-> data["sueldo"], departamento |-> data["departamento"],
   cargo |-> data["cargo"]]

_cargar_datos(f) == IF ~f.existe THEN <<>> ELSE f.datos

_guardar_datos(datos) == [existe |-> TRUE, datos |-> datos]

Existe(datos, cedula) == \E i \in 1..Len(datos) : datos[i]["cedula"] = cedula

\* faulty variant: the file is read again before the save
crear_tras_recargar(datos, f, empleado) ==
  IF Existe(datos, empleado.cedula)
  THEN [res |-> ValueError(MsgYaExiste), f |-> f, traza |-> <<>>]
  ELSE [res |-> Return(TRUE),
        f |-> _guardar_datos(Append(_cargar_datos(f), _serializar(empleado))),
        traza |-> <<"_guardar_datos">>]

\* crear after its _cargar_datos: the check, the append and the save
crear_tras_cargar(datos, f, empleado) ==
  IF Existe(datos, empleado.cedula)
  THEN [res |-> ValueError(MsgYaExiste), f |-> f, traza |-> <<>>]
  ELSE [res |-> Return(TRUE),
        f |-> _guardar_datos(Append(datos, _serializar(empleado))),
        traza |-> <<"_guardar_datos">>]

crear(f, empleado) ==
  LET r == crear_tras_cargar(_cargar_datos(f), f, empleado)
  IN  [res |-> r.res, f |-> r.f, traza |-> <<"_cargar_datos">> \o r.traza]

listar(f) ==
  LET datos == _cargar_datos(f)
  IN  [i \in 1..Len(datos) |-> _deserializar(datos[i])]

\* the first index whose record has the key
Primero(datos, cedula) ==
  CHOOSE i \in 1..Len(datos) :
    /\ datos[i]["cedula"] = cedula
    /\ \A j \in 1..(i - 1) : datos[j]["cedula"] # cedula

\* faulty variant: an unchanged value counts as not found
actualizar_si_cambia(f, cedula, empleado) ==
  IF /\ Existe(_cargar_datos(f), cedula)
     /\ _cargar_datos(f)[Primero(_cargar_datos(f), cedula)] # _serializar(empleado)
  THEN [res |-> Return(TRUE),
        f |-> _guardar_datos([_cargar_datos(f) EXCEPT
                                ![Primero(_cargar_datos(f), cedula)] =
                                  _serializar(empleado)]),
        traza |-> <<"_cargar_datos", "_guardar_datos">>]
  ELSE [res |-> Return(FALSE), f |-> f, traza |-> <<"_cargar_datos">>]

actualizar(f, cedula, empleado) ==
  LET datos == _cargar_datos(f)
  IN  IF Existe(datos, cedula)
      THEN [res |-> Return(TRUE),
            f |-> _guardar_datos([datos EXCEPT ![Primero(datos, cedula)] =
                                    _serializar(empleado)]),
            traza |-> <<"_cargar_datos", "_guardar_datos">>]
      ELSE [res |-> Return(FALSE), f |-> f, traza |-> <<"_cargar_datos">>]

RECURSIVE Filtrar(_, _)
Filtrar(datos, cedula) ==
  IF datos = <<>> THEN <<>>
  ELSE IF Head(datos)["cedula"] # cedula
       THEN <<Head(datos)>> \o Filtrar(Tail(datos), cedula)
       ELSE Filtrar(Tail(datos), cedula)

eliminar(f, cedula) ==
  LET datos == _cargar_datos(f)
      filtrados == Filtrar(datos, cedula)
  IN  IF Len(filtrados) < Len(datos)
      THEN [res |-> Return(TRUE), f |-> _guardar_datos(filtrados),
            traza |-> <<"_cargar_datos", "_guardar_datos">>]
      ELSE [res |-> Return(FALSE), f |-> f, traza |-> <<"_cargar_datos">>]

(***************************************************************************)
(* GestorEmpleados: the entity is built from the arguments first           *)
(***************************************************************************)
crear_empleado(f, cedula, nombre, sueldo, departamento, cargo) ==
  LET e == Empleado(cedula, nombre, sueldo, departamento, cargo)
  IN  IF e.tipo = "ValueError"
      THEN [res |-> e, f |-> f, traza |-> <<"Empleado">>]
      ELSE LET r == crear(f, e.valor)
           IN  [res |-> r.res, f |-> r.f,
                traza |-> <<"Empleado", "repo.crear">> \o r.traza]

actualizar_empleado(f, cedula, nombre, sueldo, departamento, cargo) ==
  LET e == Empleado(cedula, nombre, sueldo, departamento, cargo)
  IN  IF e.tipo = "ValueError"
      THEN [res |-> e, f |-> f, traza |-> <<"Empleado">>]
      ELSE LET r == actualizar(f, cedula, e.valor)
           IN  [res |-> r.res, f |-> r.f,
                traza |-> <<"Empleado", "repo.actualizar">> \o r.traza]

eliminar_empleado(f, cedula) ==
  LET r == eliminar(f, cedula)
  IN  [res |-> r.res, f |-> r.f, traza |-> <<"repo.eliminar">> \o r.traza]

(***************************************************************************)
(* Payroll                                                                 *)
(***************************************************************************)
\* the float a stored salary is
Float(x) == IF x.nan THEN FNaN ELSE FFromCents(x.c)

BONO == FFromInt(50)
PRESTAMO == FFromInt(20)
TasaIess == FDivRound(BFromInt(945), 0, 10000)
SueldoAlto == FFromInt(1000)

\* the fields derived from tot_ing and tot_des
DetalleNeto(d) == [d EXCEPT !.neto = FSub(d.tot_ing, d.tot_des)]

DetalleDescuentos(d) == DetalleNeto([d EXCEPT !.tot_des = FAdd(d.iess, d.prestamo)])

DetalleNomina(id, empleado, sueldo, bono, prestamo) ==
  DetalleDescuentos(
    [id |-> id, empleado |-> empleado, sueldo |-> sueldo, bono |-> bono,
     tot_ing |-> FAdd(sueldo, bono),
     iess |-> FRound2(FMul(sueldo, TasaIess)),
     prestamo |-> prestamo, tot_des |-> FZero, neto |-> FZero])

\* Nomina(id, aniomes)
Nomina(id, aniomes) ==
  [id |-> id, aniomes |-> aniomes, tot_ing |-> FZero, tot_des |-> FZero,
   neto |-> FZero, detalles |-> <<>>]

\* sum(xs) and reduce(lambda a, b: a + b, xs, 0): a left fold from 0
RECURSIVE SumaDesde(_, _)
SumaDesde(acc, xs) ==
  IF xs = <<>> THEN acc ELSE SumaDesde(FAdd(acc, Head(xs)), Tail(xs))

Suma(xs) == SumaDesde(FZero, xs)

Campo(detalles, k) == [i \in 1..Len(detalles) |-> detalles[i][k]]

TotalNeto(nomina) == [nomina EXCEPT !.neto = FSub(nomina.tot_ing, nomina.tot_des)]

\* faulty variant: tot_ing adds the salaries, without the bonus
calcular_totales_de_sueldos(nomina) ==
  TotalNeto([nomina EXCEPT
               !.tot_ing = Suma(Campo(nomina.detalles, "sueldo")),
               !.tot_des = Suma(Campo(nomina.detalles, "tot_des"))])

calcular_totales(nomina) ==
  TotalNeto([nomina EXCEPT
               !.tot_ing = Suma(Campo(nomina.detalles, "tot_ing")),
               !.tot_des = Suma(Campo(nomina.detalles, "tot_des"))])

\* max(detalles, key=neto) and min(...): the first of the extremal items
RECURSIVE Mayor(_, _)
Mayor(mejor, ds) ==
  IF ds = <<>> THEN mejor
  ELSE Mayor(IF FCmp(Head(ds).neto, mejor.neto) = 1 THEN Head(ds) ELSE mejor,
             Tail(ds))

RECURSIVE Menor(_, _)
Menor(mejor, ds) ==
  IF ds = <<>> THEN mejor
  ELSE Menor(IF FCmp(Head(ds).neto, mejor.neto) = -1 THEN Head(ds) ELSE mejor,
             Tail(ds))

Cuantos(ds) == Cardinality({i \in 1..Len(ds) : FCmp(ds[i].sueldo, SueldoAlto) = 1})

Estadisticas(ds, mayor_neto, menor_neto) ==
  [total_empleados |-> Len(ds),
   total_neto_pagado |-> Suma(Campo(ds, "neto")),
   promedio_sueldos |-> FRound2(FDivInt(Suma(Campo(ds, "sueldo")), Len(ds))),
   empleados_alto_sueldo |-> Cuantos(ds),
   empleado_mayor_neto |-> mayor_neto.empleado.nombre,
   empleado_menor_neto |-> menor_neto.empleado.nombre,
   valor_mayor_neto |-> mayor_neto.neto,
   valor_menor_neto |-> menor_neto.neto]

generar_estadisticas(nomina) ==
  IF nomina.detalles = <<>>
  THEN [total_empleados |-> 0, promedio_sueldo |-> 0, total_neto |-> 0]
  ELSE Estadisticas(nomina.detalles,
                    Mayor(Head(nomina.detalles), Tail(nomina.detalles)),
                    Menor(Head(nomina.detalles), Tail(nomina.detalles)))

\* faulty variant: the ids count from 0
_calcular_detalle_desde_cero(empleado, id_detalle) ==
  DetalleNomina(id_detalle - 1, empleado, Float(empleado.sueldo), BONO, PRESTAMO)

_calcular_detalle_empleado(empleado, id_detalle) ==
  DetalleNomina(id_detalle, empleado, Float(empleado.sueldo), BONO, PRESTAMO)

\* faulty variant: an empty listing is not rejected
NominaDeCualquiera(empleados, aniomes) ==
  [res |-> Return(calcular_totales(
             [Nomina(1, aniomes) EXCEPT !.detalles =
                [i \in 1..Len(empleados) |->
                   DetalleNomina(i, empleados[i], Float(empleados[i].sueldo),
                                 BONO, PRESTAMO)]])),
   traza |-> <<"repo.listar", "calcular_totales">>]

\* generar_nomina_mensual after its repo.listar()
NominaDe(empleados, aniomes) ==
  IF empleados = <<>>
  THEN [res |-> ValueError(MsgNoHayEmpleados), traza |-> <<"repo.listar">>]
  ELSE [res |-> Return(calcular_totales(
                  [Nomina(1, aniomes) EXCEPT !.detalles =
                     [i \in 1..Len(empleados) |->
                        _calcular_detalle_empleado(empleados[i], i)]])),
        traza |-> <<"repo.listar", "calcular_totales">>]

generar_nomina_mensual(f, aniomes) == NominaDe(listar(f), aniomes)

\* the content written to nomina_<aniomes>.json
guardar_nomina(nomina) ==
  [id |-> nomina.id, aniomes |-> nomina.aniomes, tot_ing |-> nomina.tot_ing,
   tot_des |-> nomina.tot_des, neto |-> nomina.neto,
   detalles |-> [i \in 1..Len(nomina.detalles) |->
     [id |-> nomina.detalles[i].id,
      empleado |-> nomina.detalles[i].empleado.nombre,
      cedula |-> nomina.detalles[i].empleado.cedula,
      sueldo |-> nomina.detalles[i].sueldo,
      bono |-> nomina.detalles[i].bono,
      tot_ing |-> nomina.detalles[i].tot_ing,
      iess |-> nomina.detalles[i].iess,
      prestamo |-> nomina.detalles[i].prestamo,
      tot_des |-> nomina.detalles[i].tot_des,
      neto |-> nomina.detalles[i].neto]]]

\* procesar_nomina_completa after its generar_nomina_mensual, whose outcome
\* is g: the artifact is written and the summary made only if it returned
ProcesarDe(g, artefactos, aniomes) ==
  IF g.res.tipo = "ValueError"
  THEN [res |-> g.res, artefactos |-> artefactos,
        traza |-> <<"generar_nomina_mensual">> \o g.traza]
  ELSE [res |-> Return([nomina |-> g.res.valor,
                        estadisticas |-> generar_estadisticas(g.res.valor)]),
        artefactos |-> [artefactos EXCEPT ![aniomes] =
                          <<guardar_nomina(g.res.valor)>>],
        traza |-> <<"generar_nomina_mensual">> \o g.traza \o
                  <<"guardar_nomina", "generar_estadisticas">>]

\* yields the outcome, the artifacts afterwards and the calls made
procesar_nomina_completa(f, artefactos, aniomes) ==
  ProcesarDe(generar_nomina_mensual(f, aniomes), artefactos, aniomes)

(***************************************************************************)
(* State                                                                   *)
(***************************************************************************)
VARIABLES
  archivo,     \* empleados.json: [existe, datos]
  artefactos,  \* nomina_<aniomes>.json per period: <<>> or <<content>>
  ult,         \* the last call: [op, args]
  res,         \* its outcome
  antes,       \* the files when it started: [empleados, nominas]
  traza,       \* the calls it made, in order
  hilo,        \* concurrent callers of crear: position and locals
  reloj        \* steps taken by the concurrent callers

vars == <<archivo, artefactos, ult, res, antes, traza, hilo, reloj>>

\* the snapshot is not extended beyond this many records
MaxLen == 3

\* the concurrent callers take at most this many steps
MaxPasos == 6

Cabe == Len(_cargar_datos(archivo)) < MaxLen

(***************************************************************************)
(* Inputs                                                                  *)
(***************************************************************************)
Cedulas == {<<"1">>, <<"2">>, <<" ", "3">>}
EntradaCedula == {<<"1">>, <<" ", "3">>, <<>>}
EntradaNombre == {<<"A">>, <<" ">>}
EntradaSueldo == {Dec(-1), Dec(0), Dec(80000), NaN}
SueldoEntidad == {Dec(-1), Dec(0), Dec(80000)}
EntradaDepartamento == {<<"D">>, <<" ", "\t">>}
EntradaCargo == {<<"C">>, <<>>}

\* the entities the constructor yields for the repository's callers
Entidades ==
  {x.valor : x \in {y \in {Empleado(c, <<"A">>, s, <<"D">>, <<"C">>) :
                               c \in Cedulas, s \in SueldoEntidad} :
                      y.tipo = "return"}}

\* the employees of the payroll runs: salaries 800.00, 1250.00 and nan
EmpleadosNomina ==
  {<<<<"1">>, <<"A">>, Dec(80000), <<"D">>, <<"C">>>>,
   <<<<"2">>, <<"B">>, Dec(125000), <<"D">>, <<"C">>>>,
   <<<<" ", "3">>, <<"C">>, Dec(80000), <<"E">>, <<"C">>>>,
   <<<<" ", "3">>, <<"C">>, NaN, <<"E">>, <<"C">>>>}
Periodos == {"202404"}
Hilos == {1, 2}

Ninguno == [tipo |-> "ninguno"]
HiloListo == [pc |-> "listo", empleado |-> Ninguno, datos |-> <<>>,
              res |-> Ninguno, tCarga |-> 0, tFin |-> 0]

Init ==
  /\ archivo \in {[existe |-> FALSE, datos |-> <<>>],
                  [existe |-> TRUE, datos |-> <<>>]}
  /\ artefactos = [p \in Periodos |-> <<>>]
  /\ ult = [op |-> "ninguna", args |-> <<>>]
  /\ res = Ninguno
  /\ antes = [empleados |-> archivo, nominas |-> artefactos]
  /\ traza = <<>>
  /\ hilo = [h \in Hilos |-> HiloListo]
  /\ reloj = 0

(***************************************************************************)
(* Calls, one at a time                                                    *)
(***************************************************************************)
Llamada(op, args, r) ==
  /\ archivo' = r.f
  /\ res' = r.res
  /\ traza' = r.traza
  /\ antes' = [empleados |-> archivo, nominas |-> artefactos]
  /\ ult' = [op |-> op, args |-> args]
  /\ UNCHANGED <<artefactos, hilo, reloj>>

Crear(e) ==
  /\ Cabe
  /\ Llamada("crear", <<e>>, crear(archivo, e))

Actualizar(c, e) ==
  /\ Llamada("actualizar", <<c, e>>, actualizar(archivo, c, e))

Eliminar(c) ==
  /\ Llamada("eliminar", <<c>>, eliminar(archivo, c))

CrearEmpleado(c, n, s, d, g) ==
  /\ Cabe
  /\ Llamada("crear_empleado", <<c, n, s, d, g>>,
             crear_empleado(archivo, c, n, s, d, g))

ActualizarEmpleado(c, n, s, d, g) ==
  /\ Llamada("actualizar_empleado", <<c, n, s, d, g>>,
             actualizar_empleado(archivo, c, n, s, d, g))

EliminarEmpleado(c) ==
  /\ Llamada("eliminar_empleado", <<c>>, eliminar_empleado(archivo, c))

Listar ==
  /\ Llamada("listar", <<>>,
             [res |-> Return(listar(archivo)), f |-> archivo,
              traza |-> <<"_cargar_datos">>])

\* a call that leaves empleados.json alone
Consulta(op, args, r) ==
  Llamada(op, args, [res |-> r.res, f |-> archivo, traza |-> r.traza])

GenerarNominaMensual(p) ==
  /\ Consulta("generar_nomina_mensual", <<p>>,
              generar_nomina_mensual(archivo, p))

Procesado(p, r) ==
  /\ artefactos' = r.artefactos
  /\ res' = r.res
  /\ traza' = r.traza
  /\ antes' = [empleados |-> archivo, nominas |-> artefactos]
  /\ ult' = [op |-> "procesar_nomina_completa", args |-> <<p>>]
  /\ UNCHANGED <<archivo, hilo, reloj>>

ProcesarNominaCompleta(p) ==
  /\ Procesado(p, procesar_nomina_completa(archivo, artefactos, p))

\* the payrolls a caller can hold: a new Nomina, or the generated one
Nominas ==
  {Nomina(1, p) : p \in Periodos} \cup
  {g.res.valor : g \in {x \in {generar_nomina_mensual(archivo, p) :
                                    p \in Periodos} : x.res.tipo = "return"}}

GenerarEstadisticas(n) ==
  /\ Llamada("generar_estadisticas", <<n>>,
             [res |-> Return(generar_estadisticas(n)), f |-> archivo,
              traza |-> <<>>])

\* the repository
Next ==
  \/ \E e \in Entidades : Crear(e)
  \/ \E c \in Cedulas, e \in Entidades : Actualizar(c, e)
  \/ \E c \in Cedulas : Eliminar(c)

Spec == Init /\ [][Next]_vars

\* the manager, with arguments of every kind
NextGestor ==
  \/ \E c \in EntradaCedula, n \in EntradaNombre, s \in EntradaSueldo,
        d \in EntradaDepartamento, g \in EntradaCargo :
        \/ CrearEmpleado(c, n, s, d, g)
        \/ ActualizarEmpleado(c, n, s, d, g)
  \/ \E c \in EntradaCedula : EliminarEmpleado(c)

SpecGestor == Init /\ [][NextGestor]_vars

\* the manager and the payroll service over it
NextNomina ==
  \/ \E a \in EmpleadosNomina :
        \/ CrearEmpleado(a[1], a[2], a[3], a[4], a[5])
        \/ ActualizarEmpleado(a[1], a[2], a[3], a[4], a[5])
  \/ \E c \in Cedulas : EliminarEmpleado(c)
  \/ Listar
  \/ \E p \in Periodos : GenerarNominaMensual(p)
  \/ \E p \in Periodos : ProcesarNominaCompleta(p)
  \/ \E n \in Nominas : GenerarEstadisticas(n)

SpecNomina == Init /\ [][NextNomina]_vars

(***************************************************************************)
(* Two callers of crear on the same file.  A call is two steps, its        *)
(* _cargar_datos and the rest: nothing orders the steps of different       *)
(* callers.                                                                *)
(***************************************************************************)
CrearCargar(h, e) ==
  /\ hilo[h].pc = "listo"
  /\ reloj < MaxPasos
  /\ reloj' = reloj + 1
  /\ hilo' = [hilo EXCEPT ![h] =
                [pc |-> "cargado", empleado |-> e,
                 datos |-> _cargar_datos(archivo), res |-> Ninguno,
                 tCarga |-> reloj + 1, tFin |-> 0]]
  /\ UNCHANGED <<archivo, artefactos, ult, res, antes, traza>>

CrearTerminar(h) ==
  /\ hilo[h].pc = "cargado"
  /\ LET r == crear_tras_cargar(hilo[h].datos, archivo, hilo[h].empleado)
     IN  /\ archivo' = r.f
         /\ hilo' = [hilo EXCEPT ![h].pc = "listo", ![h].res = r.res,
                                 ![h].tFin = reloj + 1]
  /\ reloj' = reloj + 1
  /\ UNCHANGED <<artefactos, ult, res, antes, traza>>

NextConc ==
  \/ \E h \in Hilos, e \in Entidades : CrearCargar(h, e)
  \/ \E h \in Hilos : CrearTerminar(h)

SpecConc == Init /\ [][NextConc]_vars

(***************************************************************************)
(* Properties                                                              *)
(***************************************************************************)
DatosAntes == _cargar_datos(antes.empleados)
Datos == _cargar_datos(archivo)

Veces(datos, cedula) ==
  Cardinality({i \in 1..Len(datos) : datos[i]["cedula"] = cedula})

Guardo == \E i \in 1..Len(traza) : traza[i] = "_guardar_datos"

\* C1: crear(e) with e's key present raises the duplicate-key error, writes
\* nothing and leaves the snapshot as it was, with exactly one record of that
\* key; with the key absent it succeeds and the snapshot is the one before
\* with e's record appended.
C1_CrearClave ==
  ult.op = "crear" =>
    LET e == ult.args[1]
    IN  IF Existe(DatosAntes, e.cedula)
        THEN /\ res = ValueError(MsgYaExiste)
             /\ ~Guardo
             /\ archivo = antes.empleados
             /\ Veces(Datos, e.cedula) = 1
        ELSE /\ res = Return(TRUE)
             /\ archivo.existe
             /\ archivo.datos = Append(DatosAntes, _serializar(e))

\* C2: no two stored records have the same key.
C2_ClavesUnicas ==
  \A i, j \in 1..Len(Datos) : i # j => Datos[i]["cedula"] # Datos[j]["cedula"]

\* C3: actualizar(key, e) with key absent returns false and leaves the
\* snapshot unchanged; with key present it returns true, also when e equals
\* the stored value, and the snapshot differs from the one before only at the
\* position of the first record with that key, which now holds e's
\* serialized form.
C3_Actualizar ==
  ult.op = "actualizar" =>
    LET cedula == ult.args[1]
        e == ult.args[2]
    IN  IF ~Existe(DatosAntes, cedula)
        THEN /\ res = Return(FALSE)
             /\ ~Guardo
             /\ archivo = antes.empleados
        ELSE /\ res = Return(TRUE)
             /\ Len(Datos) = Len(DatosAntes)
             /\ \E i \in 1..Len(Datos) :
                  /\ DatosAntes[i]["cedula"] = cedula
                  /\ \A j \in 1..(i - 1) : DatosAntes[j]["cedula"] # cedula
                  /\ Datos[i] = _serializar(e)
                  /\ \A j \in 1..Len(Datos) : j # i => Datos[j] = DatosAntes[j]

C3_Witness ==
  /\ ult.op = "actualizar"
  /\ Existe(DatosAntes, ult.args[1])
  /\ Len(Datos) = 3
  /\ Datos[2] # DatosAntes[2]
  /\ res = Return(TRUE)

\* the snapshot without its i-th record
Sin(datos, i) == SubSeq(datos, 1, i - 1) \o SubSeq(datos, i + 1, Len(datos))

\* C4: eliminar(key) with key absent returns false and leaves the snapshot
\* unchanged; with key present it returns true and the snapshot has exactly
\* one record fewer, the record with that key, the others in their order.
C4_Eliminar ==
  ult.op = "eliminar" =>
    LET cedula == ult.args[1]
    IN  IF ~Existe(DatosAntes, cedula)
        THEN /\ res = Return(FALSE)
             /\ archivo = antes.empleados
        ELSE /\ res = Return(TRUE)
             /\ Len(Datos) = Len(DatosAntes) - 1
             /\ \E i \in 1..Len(DatosAntes) :
                  /\ DatosAntes[i]["cedula"] = cedula
                  /\ Datos = Sin(DatosAntes, i)

EnBlanco(s) == \A k \in 1..Len(s) : s[k] \in Whitespace

Invalida(args) ==
  \/ \E i \in {1, 2, 4, 5} : EnBlanco(args[i])
  \/ Negativo(args[3])

RegistroValido(r) ==
  /\ \A k \in {"cedula", "nombre", "departamento", "cargo"} : ~EnBlanco(r[k])
  /\ ~r["sueldo"].nan /\ r["sueldo"].c >= 0

\* an invalid request is rejected when the Empleado is built
Rechazada ==
  (ult.op \in {"crear_empleado", "actualizar_empleado"} /\ Invalida(ult.args))
    => /\ res.tipo = "ValueError"
       /\ res.msg \in {MsgTextoVacio, MsgNegativo}
       /\ traza = <<"Empleado">>
       /\ archivo = antes.empleados

\* C5: a crear_empleado or actualizar_empleado request with a blank text
\* field or a negative salary raises the validation error when the Empleado
\* is built, the repository is not called and the snapshot is unchanged;
\* every stored record has non-blank text fields and a salary >= 0.
C5_Validacion ==
  /\ Rechazada
  /\ \A i \in 1..Len(Datos) : RegistroValido(Datos[i])

\* the payroll the last call returned, if it returned one
NominaDevuelta ==
  IF res.tipo # "return" THEN <<>>
  ELSE IF ult.op = "generar_nomina_mensual" THEN <<res.valor>>
  ELSE IF ult.op = "procesar_nomina_completa" THEN <<res.valor.nomina>>
  ELSE <<>>

TotalesDeLineas(n) ==
  /\ n.tot_ing = Suma(Campo(n.detalles, "tot_ing"))
  /\ n.tot_des = Suma(Campo(n.detalles, "tot_des"))
  /\ n.neto = FSub(n.tot_ing, n.tot_des)

EscribioNomina == \E i \in 1..Len(traza) : traza[i] = "guardar_nomina"

\* C7: with no stored employee (empty or missing file)
\* generar_nomina_mensual raises the no-employees error and
\* procesar_nomina_completa raises it too, returns nothing and writes no
\* artifact; an artifact is written only after a payroll with at least one
\* line item was built, and it holds that payroll.
C7_SinEmpleados ==
  /\ (ult.op \in {"generar_nomina_mensual", "procesar_nomina_completa"}
        /\ DatosAntes = <<>>)
       => /\ res = ValueError(MsgNoHayEmpleados)
          /\ ~EscribioNomina
          /\ artefactos = antes.nominas
  /\ artefactos # antes.nominas => EscribioNomina
  /\ EscribioNomina =>
       /\ ult.op = "procesar_nomina_completa"
       /\ res.tipo = "return"
       /\ Len(res.valor.nomina.detalles) >= 1
       /\ artefactos[ult.args[1]] = <<guardar_nomina(res.valor.nomina)>>
  /\ \A p \in Periodos :
       artefactos[p] # <<>> => Len(artefactos[p][1].detalles) >= 1

C7_Witness ==
  /\ ult.op = "procesar_nomina_completa"
  /\ ~archivo.existe
  /\ res = ValueError(MsgNoHayEmpleados)

ClavesResumen ==
  {"total_empleados", "total_neto_pagado", "promedio_sueldos",
   "empleados_alto_sueldo", "empleado_mayor_neto", "empleado_menor_neto",
   "valor_mayor_neto", "valor_menor_neto"}

Cero(v) == v \in {0, FZero}

\* C8: for a payroll without line items generar_estadisticas returns a
\* summary with the fields of the non-empty case, total_empleados = 0, every
\* numeric field zero and the name fields unset.
C8_ResumenVacio ==
  (ult.op = "generar_estadisticas" /\ ult.args[1].detalles = <<>>) =>
    /\ res.tipo = "return"
    /\ DOMAIN res.valor = ClavesResumen
    /\ res.valor["total_empleados"] = 0
    /\ \A k \in {"total_neto_pagado", "promedio_sueldos",
                  "empleados_alto_sueldo", "valor_mayor_neto",
                  "valor_menor_neto"} : Cero(res.valor[k])
    /\ res.valor["empleado_mayor_neto"] = Ninguno
    /\ res.valor["empleado_menor_neto"] = Ninguno

\* C9: listar returns the stored records in file order, and a returned
\* payroll over N >= 1 records has id 1 and N line items, the i-th with id i
\* and the key, name and salary of the i-th stored record.
C9_OrdenNomina ==
  /\ ult.op = "listar" =>
       /\ res.tipo = "return"
       /\ Len(res.valor) = Len(DatosAntes)
       /\ \A i \in 1..Len(DatosAntes) :
            \A k \in CamposEmpleado : res.valor[i][k] = DatosAntes[i][k]
  /\ \A k \in 1..Len(NominaDevuelta) :
       LET n == NominaDevuelta[k]
       IN  /\ n.id = 1
           /\ Len(DatosAntes) >= 1
           /\ Len(n.detalles) = Len(DatosAntes)
           /\ \A i \in 1..Len(DatosAntes) :
                /\ n.detalles[i].id = i
                /\ n.detalles[i].empleado.cedula = DatosAntes[i]["cedula"]
                /\ n.detalles[i].empleado.nombre = DatosAntes[i]["nombre"]
                /\ n.detalles[i].empleado.sueldo = DatosAntes[i]["sueldo"]
                /\ n.detalles[i].sueldo = Float(DatosAntes[i]["sueldo"])

C9_Witness ==
  /\ ult.op = "procesar_nomina_completa"
  /\ Len(NominaDevuelta) = 1
  /\ Len(Datos) = 3
  /\ Datos[1]["cedula"] = <<"2">>
  /\ NominaDevuelta[1].detalles[3].empleado.cedula = <<"1">>

\* two finished calls of different callers that loaded the same snapshot,
\* each before the other finished, with different keys absent from it
Solapadas(p, q) ==
  /\ p # q
  /\ hilo[p].datos = hilo[q].datos
  /\ hilo[p].pc = "listo" /\ hilo[q].pc = "listo"
  /\ hilo[p].tFin > 0 /\ hilo[q].tFin > 0
  /\ hilo[p].tCarga < hilo[q].tFin /\ hilo[q].tCarga < hilo[p].tFin
  /\ hilo[p].empleado.cedula # hilo[q].empleado.cedula
  /\ ~Existe(hilo[p].datos, hilo[p].empleado.cedula)
  /\ ~Existe(hilo[q].datos, hilo[q].empleado.cedula)

\* C10: when two callers run crear with distinct absent keys on the same
\* snapshot and both load before either saves, both return True, and once
\* the later one has saved the file holds that snapshot with the later
\* caller's record only: the earlier caller's record is lost.
C10_ActualizacionPerdida ==
  \A p, q \in Hilos :
    (Solapadas(p, q) /\ hilo[p].tFin < hilo[q].tFin) =>
      /\ hilo[p].res = Return(TRUE) /\ hilo[q].res = Return(TRUE)
      /\ reloj = hilo[q].tFin =>
           /\ archivo.datos =
                Append(hilo[q].datos, _serializar(hilo[q].empleado))
           /\ ~Existe(archivo.datos, hilo[p].empleado.cedula)

C10_Witness ==
  \E p, q \in Hilos :
    /\ Solapadas(p, q)
    /\ hilo[p].tFin < hilo[q].tFin
    /\ reloj = hilo[q].tFin
    /\ Len(hilo[q].datos) = 1
    /\ Len(archivo.datos) = 2
    /\ hilo[p].res = Return(TRUE)

====
